---- MODULE Spec2Model ----
(***************************************************************************)
(* A model of aywander/UfoParameters: the dimensional normalisation        *)
(* PhysNorm (src/norm.py), the ideal-gas equation of state EOSIdeal        *)
(* (src/eos.py) and the quantity evaluator UfoParams                       *)
(* (src/ufo_parameters.py).                                                *)
(*                                                                         *)
(* Numbers.  The program computes in IEEE doubles; the model computes in   *)
(* exact arithmetic, so that an equality of the model is an equality of    *)
(* the real numbers the doubles approximate.  A number is a triple         *)
(* <<n, d, r>> standing for (n/d)*sqrt(r), with d > 0, gcd(n,d) = 1 and r  *)
(* a squarefree integer >= 1 (r = 1 for a rational).  NaV stands for every *)
(* value outside these numbers (numpy's inf and nan after a division by    *)
(* zero or a root of a negative number, and sums of unlike radicals); the  *)
(* input sets are chosen so that NaV is never stored (see NoNaV).          *)
(*                                                                         *)
(* Scaling factors.  PhysNorm raises the anchor values to rational powers. *)
(* Anchor values are drawn from the powers of two; a scaling factor 2^q is *)
(* held as its exponent q (a rational), so a product of scalings is the    *)
(* sum of the exponents and a power s**p is the product q*p.  ScValue      *)
(* turns a scaling with an integer exponent into the number 2^q.           *)
(*                                                                         *)
(* Specifications.  SpecNorm: one construction of a PhysNorm.  Spec: a     *)
(* UfoParams object and the calls of its methods.  SpecEqn: direct calls   *)
(* of the formulas eqn_<var>.  SpecEos: an EOSIdeal object and auto_eos.   *)
(* SpecEval: the constructor and the methods of UfoParams call by call,    *)
(* with the names of the attributes in place of their values.              *)
(***************************************************************************)
EXTENDS Integers, Sequences, FiniteSets, TLC

(***************************************************************************)
(* Bounds of the model.                                                    *)
(***************************************************************************)
\* The interpreter's recursion limit: a call that would make the call stack
\* deeper than MaxDepth frames raises RuntimeError instead.
MaxDepth == 8
\* PhysNorm is called with at most MaxAnchors keyword arguments.
MaxAnchors == 6
\* Anchor values are 2^0 .. 2^MaxLog.
MaxLog == 1
\* At most MaxUpd calls of upd_<var>, with any keywords, in one behaviour of
\* UfoParams; the last of them may then be made once more, with the same
\* keywords.
MaxUpd == 1

(***************************************************************************)
(* Exact arithmetic.                                                       *)
(***************************************************************************)
Abs(x) == IF x < 0 THEN -x ELSE x

RECURSIVE GCD(_, _)
GCD(a, b) == IF b = 0 THEN a ELSE GCD(b, a % b)

NaV == <<0, 0, 1>>

IsNum(a) == a[2] # 0

\* (n/d)*sqrt(r) in lowest terms; r is squarefree already.
Mk(n, d, r) ==
    IF d = 0 THEN NaV
    ELSE IF n = 0 THEN <<0, 1, 1>>
    ELSE LET g == GCD(Abs(n), Abs(d))
             s == IF d < 0 THEN -1 ELSE 1
         IN  <<(s * n) \div g, (s * d) \div g, r>>

Rat(n, d) == Mk(n, d, 1)

Num(n) == <<n, 1, 1>>

VNeg(a) == IF IsNum(a) THEN <<-a[1], a[2], a[3]>> ELSE NaV

VAdd(a, b) ==
    IF ~IsNum(a) \/ ~IsNum(b) THEN NaV
    ELSE IF a[1] = 0 THEN b
    ELSE IF b[1] = 0 THEN a
    ELSE IF a[3] # b[3] THEN NaV
    ELSE Mk(a[1] * b[2] + b[1] * a[2], a[2] * b[2], a[3])

VSub(a, b) == VAdd(a, VNeg(b))

\* sqrt(r1)*sqrt(r2) = g*sqrt((r1/g)*(r2/g)) for squarefree r1, r2, g = gcd.
\* Each numerator is reduced against the other denominator before the
\* products are taken.
\* The product with numerator n and denominator d, already in lowest terms; g
\* is the gcd of the two radicands.
VMulReduced(n, d, g, ra, rb) ==
    IF g = 1 THEN <<n, d, IF n = 0 THEN 1 ELSE ra * rb>>
    ELSE Mk(n * g, d, (ra \div g) * (rb \div g))

\* The product of a and b, g1 and g2 being the gcd of each numerator and the
\* other denominator.
VMulCross(a, b, g1, g2) ==
    VMulReduced((a[1] \div g1) * (b[1] \div g2), (a[2] \div g2) * (b[2] \div g1),
                GCD(a[3], b[3]), a[3], b[3])

VMul(a, b) ==
    IF ~IsNum(a) \/ ~IsNum(b) THEN NaV
    ELSE VMulCross(a, b, GCD(Abs(a[1]), b[2]), GCD(Abs(b[1]), a[2]))

VInv(a) ==
    IF ~IsNum(a) \/ a[1] = 0 THEN NaV
    ELSE IF a[3] = 1 THEN (IF a[1] < 0 THEN <<-a[2], -a[1], 1>> ELSE <<a[2], a[1], 1>>)
    ELSE Mk(a[2], a[1] * a[3], a[3])

VDiv(a, b) == VMul(a, VInv(b))

\* <<s, q, rest>> with m = s*s*q*rest, q squarefree, and rest without a prime
\* factor below p or below 64, whichever is reached first.  A rest below
\* 64*64 is 1 or a prime.
RECURSIVE Strip(_, _)
Strip(m, p) ==
    IF p > 64 \/ p * p > m THEN <<1, 1, m>>
    ELSE IF m % (p * p) = 0
         THEN LET t == Strip(m \div (p * p), p) IN <<p * t[1], t[2], t[3]>>
    ELSE IF m % p = 0
         THEN LET t == Strip(m \div p, p + 1) IN <<t[1], p * t[2], t[3]>>
    ELSE Strip(m, p + 1)

\* np.sqrt of a rational in lowest terms: sqrt(n/d) = sqrt(n)*sqrt(d)/d.  A
\* numerator or denominator with two prime factors above 64 is outside the
\* numbers of the model.
VSqrt(a) ==
    IF ~IsNum(a) \/ a[1] < 0 \/ a[3] # 1 THEN NaV
    ELSE IF a[1] = 0 THEN Num(0)
    ELSE LET sn == Strip(a[1], 2)
             sd == Strip(a[2], 2)
         IN  IF sn[3] >= 4096 \/ sd[3] >= 4096 THEN NaV
             ELSE Mk(sn[1] * sd[1], a[2], sn[2] * sn[3] * sd[2] * sd[3])

RECURSIVE VSum(_)
VSum(s) == IF Len(s) = 0 THEN Num(0) ELSE VAdd(Head(s), VSum(Tail(s)))

RECURSIVE IntPow(_, _)
IntPow(b, e) == IF e = 0 THEN 1 ELSE b * IntPow(b, e - 1)

(***************************************************************************)
(* Scaling factors 2^q held as q.                                          *)
(***************************************************************************)
\* value ** power
ScPow(s, p) == VMul(s, p)

\* np.prod of a sequence of scalings
ScProd(s) == VSum(s)

ScOne == Num(0)

\* The number 2^q for an integer exponent q.
ScValue(s) ==
    IF ~IsNum(s) \/ s[2] # 1 \/ s[3] # 1 THEN NaV
    ELSE IF s[1] >= 0 THEN Rat(IntPow(2, s[1]), 1)
    ELSE Rat(1, IntPow(2, -s[1]))

(***************************************************************************)
(* Linear algebra on integer matrices (sequences of rows).                 *)
(***************************************************************************)
RECURSIVE IntSum(_)
IntSum(s) == IF Len(s) = 0 THEN 0 ELSE Head(s) + IntSum(Tail(s))

Without(s, j) == [k \in 1..(Len(s) - 1) |-> IF k < j THEN s[k] ELSE s[k + 1]]

Minor(a, i, j) == [k \in 1..(Len(a) - 1) |-> Without(Without(a, i)[k], j)]

RECURSIVE Det(_)
Det(a) ==
    IF Len(a) = 0 THEN 1
    ELSE IntSum([j \in 1..Len(a) |->
            IF a[1][j] = 0 THEN 0
            ELSE (IF j % 2 = 1 THEN 1 ELSE -1) * a[1][j] * Det(Minor(a, 1, j))])

Cofactor(a, i, j) ==
    (IF (i + j) % 2 = 0 THEN 1 ELSE -1) * Det(Minor(a, i, j))

Transpose(a) ==
    IF Len(a) = 0 THEN <<>>
    ELSE [i \in 1..Len(a[1]) |-> [j \in 1..Len(a) |-> a[j][i]]]

\* What numpy.linalg.solve keeps of its first argument: LinAlgError for a matrix
\* that is not two-dimensional and square or that is singular, else the
\* determinant and the adjugate (adj[i][j] is the cofactor of a[j][i]).
LaFactor(a) ==
    IF Len(a) = 0 \/ Len(a[1]) # Len(a) THEN [err |-> TRUE]
    ELSE LET det == Det(a)
         IN  IF det = 0 THEN [err |-> TRUE]
             ELSE [err |-> FALSE, det |-> det,
                   adj |-> [i \in 1..Len(a) |-> [j \in 1..Len(a) |-> Cofactor(a, j, i)]]]

\* The solution x of a.x = b from the factorisation of a: x = adj.b / det.
LaSolveFactored(f, b) ==
    [i \in 1..Len(f.adj) |->
        Rat(IntSum([j \in 1..Len(b) |-> f.adj[i][j] * b[j]]), f.det)]

(***************************************************************************)
(* PhysNorm (src/norm.py).                                                 *)
(***************************************************************************)
dimdefs == <<"length", "mass", "time", "current", "temperature">>

ndims == Len(dimdefs)

\* The keys of self.defs, in the order of the OrderedDict.
PhysNorm_keys ==
    <<"x", "m", "t", "curr", "temp", "v", "dens", "pres", "pmom", "pdot", "pflx",
      "ener", "epwr", "eflx", "eint", "edot", "cool", "mdot", "area", "volume",
      "newton", "none">>

\* The table with a slip in one entry: pres with time power -1.
PhysNorm_defs_typo ==
    ("x" :> <<1, 0, 0, 0, 0>>) @@ ("m" :> <<0, 1, 0, 0, 0>>) @@
    ("t" :> <<0, 0, 1, 0, 0>>) @@ ("curr" :> <<0, 0, 0, 1, 0>>) @@
    ("temp" :> <<0, 0, 0, 0, 1>>) @@ ("v" :> <<1, 0, -1, 0, 0>>) @@
    ("dens" :> <<-3, 1, 0, 0, 0>>) @@ ("pres" :> <<-1, 1, -1, 0, 0>>) @@
    ("pmom" :> <<1, 1, -1, 0, 0>>) @@ ("pdot" :> <<1, 1, -2, 0, 0>>) @@
    ("pflx" :> <<-1, 1, -2, 0, 0>>) @@ ("ener" :> <<2, 1, -2, 0, 0>>) @@
    ("epwr" :> <<2, 1, -3, 0, 0>>) @@ ("eflx" :> <<0, 1, -3, 0, 0>>) @@
    ("eint" :> <<2, 0, -2, 0, 0>>) @@ ("edot" :> <<2, 0, -3, 0, 0>>) @@
    ("cool" :> <<5, 1, -3, 0, 0>>) @@ ("mdot" :> <<0, 1, -1, 0, 0>>) @@
    ("area" :> <<2, 0, 0, 0, 0>>) @@ ("volume" :> <<3, 0, 0, 0, 0>>) @@
    ("newton" :> <<3, -1, -2, 0, 0>>) @@ ("none" :> <<0, 0, 0, 0, 0>>)

\* self.defs[k][0]: the powers of (length, mass, time, current, temperature).
PhysNorm_defs ==
    ("x" :> <<1, 0, 0, 0, 0>>) @@ ("m" :> <<0, 1, 0, 0, 0>>) @@
    ("t" :> <<0, 0, 1, 0, 0>>) @@ ("curr" :> <<0, 0, 0, 1, 0>>) @@
    ("temp" :> <<0, 0, 0, 0, 1>>) @@ ("v" :> <<1, 0, -1, 0, 0>>) @@
    ("dens" :> <<-3, 1, 0, 0, 0>>) @@ ("pres" :> <<-1, 1, -2, 0, 0>>) @@
    ("pmom" :> <<1, 1, -1, 0, 0>>) @@ ("pdot" :> <<1, 1, -2, 0, 0>>) @@
    ("pflx" :> <<-1, 1, -2, 0, 0>>) @@ ("ener" :> <<2, 1, -2, 0, 0>>) @@
    ("epwr" :> <<2, 1, -3, 0, 0>>) @@ ("eflx" :> <<0, 1, -3, 0, 0>>) @@
    ("eint" :> <<2, 0, -2, 0, 0>>) @@ ("edot" :> <<2, 0, -3, 0, 0>>) @@
    ("cool" :> <<5, 1, -3, 0, 0>>) @@ ("mdot" :> <<0, 1, -1, 0, 0>>) @@
    ("area" :> <<2, 0, 0, 0, 0>>) @@ ("volume" :> <<3, 0, 0, 0, 0>>) @@
    ("newton" :> <<3, -1, -2, 0, 0>>) @@ ("none" :> <<0, 0, 0, 0, 0>>)

\* The keys of kwargs_od: the supplied keys in the order of self.defs.
kwargs_od_keys(kwargs) == SelectSeq(PhysNorm_keys, LAMBDA k : k \in DOMAIN kwargs)

\* dims: the power tuples of the supplied anchors (no supplied value is None).
PhysNorm_dims(kwargs) ==
    LET ks == kwargs_od_keys(kwargs)
    IN  [j \in 1..Len(ks) |-> PhysNorm_defs[ks[j]]]

\* cs computed without abs: powers of opposite sign cancel.
PhysNorm_cs_signed(dims) ==
    IF Len(dims) = 0 THEN <<>>
    ELSE [i \in 1..ndims |-> IntSum([j \in 1..Len(dims) |-> dims[j][i]])]

\* cs: the sum of |power| over the anchors, one entry per column of dims;
\* zip(*dims) of no anchors has no column at all.
PhysNorm_cs(dims) ==
    IF Len(dims) = 0 THEN <<>>
    ELSE [i \in 1..ndims |-> IntSum([j \in 1..Len(dims) |-> Abs(dims[j][i])])]

\* The product taken over the values in the reverse of the order of kwargs_od.
PhysNorm_solve_unordered(kwargs, dims) ==
    LET ks == kwargs_od_keys(kwargs)
        lu == LaFactor(Transpose(dims))
    IN  IF lu.err
        THEN [status |-> "LinAlgError", err |-> "", powers |-> <<>>, scalings |-> <<>>]
        ELSE LET powers == [ip \in DOMAIN PhysNorm_defs |->
                                LaSolveFactored(lu, PhysNorm_defs[ip])]
             IN  [status |-> "ok", err |-> "", powers |-> powers,
                  scalings |-> [ip \in DOMAIN PhysNorm_defs |->
                      ScProd([j \in 1..Len(ks) |->
                          ScPow(kwargs[ks[Len(ks) + 1 - j]], powers[ip][j])])]]

\* The solve taken over the first ndims anchors only.
PhysNorm_solve_truncated(kwargs, dims) ==
    LET ks == kwargs_od_keys(kwargs)
        n == IF Len(ks) > ndims THEN ndims ELSE Len(ks)
        lu == LaFactor(Transpose(SubSeq(dims, 1, n)))
    IN  IF lu.err
        THEN [status |-> "LinAlgError", err |-> "", powers |-> <<>>, scalings |-> <<>>]
        ELSE LET powers == [ip \in DOMAIN PhysNorm_defs |->
                                LaSolveFactored(lu, PhysNorm_defs[ip])]
             IN  [status |-> "ok", err |-> "", powers |-> powers,
                  scalings |-> [ip \in DOMAIN PhysNorm_defs |->
                      ScProd([j \in 1..n |-> ScPow(kwargs[ks[j]], powers[ip][j])])]]

\* powers[ip] = la.solve(cm.T, defs[ip][0]); scalings[ip] = prod(values ** powers[ip]).
PhysNorm_solve(kwargs, dims) ==
    LET ks == kwargs_od_keys(kwargs)
        lu == LaFactor(Transpose(dims))
    IN  IF lu.err
        THEN [status |-> "LinAlgError", err |-> "", powers |-> <<>>, scalings |-> <<>>]
        ELSE LET powers == [ip \in DOMAIN PhysNorm_defs |->
                                LaSolveFactored(lu, PhysNorm_defs[ip])]
             IN  [status |-> "ok", err |-> "", powers |-> powers,
                  scalings |-> [ip \in DOMAIN PhysNorm_defs |->
                      ScProd([j \in 1..Len(ks) |-> ScPow(kwargs[ks[j]], powers[ip][j])])]]

\* The constructor with the test of the columns ahead of the test of the keys.
PhysNorm_columns_first(kwargs) ==
    LET unknown == {k \in DOMAIN kwargs : k \notin DOMAIN PhysNorm_defs}
        dims == PhysNorm_dims(kwargs)
        cs == PhysNorm_cs(dims)
        zero == {i \in 1..Len(cs) : cs[i] = 0}
    IN  IF zero # {}
        THEN {[status |-> "Incomplete",
               err |-> dimdefs[CHOOSE i \in zero : \A j \in zero : i <= j],
               powers |-> <<>>, scalings |-> <<>>]}
        ELSE IF unknown # {}
        THEN {[status |-> "UnknownKey", err |-> k, powers |-> <<>>, scalings |-> <<>>] :
                 k \in unknown}
        ELSE {PhysNorm_solve(kwargs, dims)}

\* PhysNorm.__init__ with keywords kwargs: the set of its possible outcomes.  Which unknown
\* key the loop over the dict meets first depends on the dict's order.
PhysNorm(kwargs) ==
    LET unknown == {k \in DOMAIN kwargs : k \notin DOMAIN PhysNorm_defs}
        dims == PhysNorm_dims(kwargs)
        cs == PhysNorm_cs(dims)
        zero == {i \in 1..Len(cs) : cs[i] = 0}
    IN  IF unknown # {}
        THEN {[status |-> "UnknownKey", err |-> k, powers |-> <<>>, scalings |-> <<>>] :
                 k \in unknown}
        ELSE IF zero # {}
        THEN {[status |-> "Incomplete",
               err |-> dimdefs[CHOOSE i \in zero : \A j \in zero : i <= j],
               powers |-> <<>>, scalings |-> <<>>]}
        ELSE {PhysNorm_solve(kwargs, dims)}

(***************************************************************************)
(* The anchors the model calls PhysNorm with.                              *)
(***************************************************************************)
\* The anchor keys of the default normalisation of UfoParams, two anchors of
\* the same dimensions (pres, pflx) and a key that is in no table.
AnchorKeys == {"x", "t", "curr", "temp", "dens", "pres", "pflx", "bogus"}

AnchorVals == {Num(l) : l \in 0..MaxLog}

AnchorSets ==
    UNION {[S -> AnchorVals] : S \in {T \in SUBSET AnchorKeys : Cardinality(T) <= MaxAnchors}}

(***************************************************************************)
(* Constants of the external module physconst and of numpy.  The model     *)
(* holds each by a small stand-in: every formula uses them as factors only.*)
(***************************************************************************)
pc_c == 3
pc_msun == 5
pc_yr == 2
pc_kpc == 2
pc_amu == 3
pc_kboltz == 2
np_pi == 3

\* CompositionBase.__init__(mu=0.6165): the mean mass per particle.
CompositionBase_mu == Rat(1233, 2000)

\* np.cos(np.pi/180*angle), on the angles whose cosine is rational.
np_cos_deg(angle) ==
    CASE angle = Num(0) -> Num(1)
      [] angle = Num(60) -> Rat(1, 2)
      [] OTHER -> NaV

\* Python's None, for an argument left out.
None == <<>>

(***************************************************************************)
(* EOSIdeal (src/eos.py).  An EOS object is a record of its attributes;    *)
(* inorm and onorm are the scaling tables of two PhysNorm objects, as      *)
(* numbers.                                                                *)
(***************************************************************************)
EOSIdeal(dens, pres, temp, comp_mu, inorm, onorm) ==
    [dens |-> IF dens # None THEN VMul(dens, inorm["dens"]) ELSE None,
     pres |-> IF pres # None THEN VMul(pres, inorm["pres"]) ELSE None,
     temp |-> IF temp # None THEN VMul(temp, inorm["temp"]) ELSE None,
     mu |-> comp_mu, inorm |-> inorm, onorm |-> onorm]

pres_from_dens_temp(eos, dens, temp, mu) ==
    LET d == IF dens = None THEN eos.dens ELSE VMul(dens, eos.inorm["dens"])
        t == IF temp = None THEN eos.temp ELSE VMul(temp, eos.inorm["temp"])
        m == IF mu = None THEN eos.mu ELSE mu
    IN  VDiv(VDiv(VMul(VMul(d, t), Num(pc_kboltz)), VMul(m, Num(pc_amu))), eos.onorm["pres"])

dens_from_pres_temp(eos, pres, temp, mu) ==
    LET p == IF pres = None THEN eos.pres ELSE VMul(pres, eos.inorm["pres"])
        t == IF temp = None THEN eos.temp ELSE VMul(temp, eos.inorm["temp"])
        m == IF mu = None THEN eos.mu ELSE mu
    IN  VDiv(VDiv(VMul(VMul(m, Num(pc_amu)), p), VMul(t, Num(pc_kboltz))), eos.onorm["dens"])

temp_from_dens_pres(eos, dens, pres, mu) ==
    LET d == IF dens = None THEN eos.dens ELSE VMul(dens, eos.inorm["dens"])
        p == IF pres = None THEN eos.pres ELSE VMul(pres, eos.inorm["pres"])
        m == IF mu = None THEN eos.mu ELSE mu
    IN  VDiv(VDiv(VMul(VMul(m, Num(pc_amu)), p), VMul(d, Num(pc_kboltz))), eos.onorm["temp"])

\* The truth value Python gives a float or None in `a and b`: None and 0.0 are
\* false.
Truthy(v) == v # None /\ v # Num(0)

\* EOSIdeal.auto_eos on the object eos: the object after the call, whether the
\* call raised ValueError, and the value returned.
auto_eos(eos) ==
    IF eos.temp = None /\ Truthy(eos.dens) /\ Truthy(eos.pres)
    THEN LET temp == temp_from_dens_pres(eos, None, None, None)
         IN  [eos |-> [eos EXCEPT !.temp = temp,
                                  !.pres = VDiv(eos.pres, eos.onorm["pres"]),
                                  !.dens = VDiv(eos.dens, eos.onorm["dens"])],
              raised |-> FALSE, ret |-> temp]
    ELSE IF eos.pres = None /\ Truthy(eos.dens) /\ Truthy(eos.temp)
    THEN LET pres == pres_from_dens_temp(eos, None, None, None)
         IN  [eos |-> [eos EXCEPT !.pres = pres,
                                  !.temp = VDiv(eos.temp, eos.onorm["temp"]),
                                  !.dens = VDiv(eos.dens, eos.onorm["dens"])],
              raised |-> FALSE, ret |-> pres]
    ELSE IF eos.dens = None /\ Truthy(eos.pres) /\ Truthy(eos.temp)
    THEN LET dens == dens_from_pres_temp(eos, None, None, None)
         IN  [eos |-> [eos EXCEPT !.dens = dens,
                                  !.pres = VDiv(eos.pres, eos.onorm["pres"]),
                                  !.temp = VDiv(eos.temp, eos.onorm["temp"])],
              raised |-> FALSE, ret |-> dens]
    ELSE [eos |-> eos, raised |-> TRUE, ret |-> None]

(***************************************************************************)
(* UfoParams (src/ufo_parameters.py).  `self` is the record of the         *)
(* attributes the formulas read: the 27 variables of defs, muu, mua, and   *)
(* the two EOS objects eosu and eosa.                                      *)
(***************************************************************************)
\* The keys of self.defs, in the order of the OrderedDict.
UfoParams_keys ==
    <<"power", "angle", "speed", "mdot", "rufo", "wufo", "temp_ambient",
      "dens_ambient", "gamma", "pres_ambient", "eint_ambient", "vsnd_ambient",
      "area", "pres", "dens", "temp", "mach", "eflx", "pratio", "dratio", "eint",
      "enth", "pdot", "pflx", "r1", "r2", "delta">>

\* self.defs[k][0]: the PhysNorm key of the dimension of variable k.
UfoParams_defs ==
    ("power" :> "epwr") @@ ("angle" :> "none") @@ ("speed" :> "v") @@
    ("mdot" :> "mdot") @@ ("rufo" :> "x") @@ ("wufo" :> "x") @@
    ("temp_ambient" :> "temp") @@ ("dens_ambient" :> "dens") @@
    ("gamma" :> "none") @@ ("pres_ambient" :> "pres") @@
    ("eint_ambient" :> "eint") @@ ("vsnd_ambient" :> "v") @@ ("area" :> "area") @@
    ("pres" :> "pres") @@ ("dens" :> "dens") @@ ("temp" :> "temp") @@
    ("mach" :> "none") @@ ("eflx" :> "eflx") @@ ("pratio" :> "none") @@
    ("dratio" :> "none") @@ ("eint" :> "eint") @@ ("enth" :> "eint") @@
    ("pdot" :> "pdot") @@ ("pflx" :> "pres") @@ ("r1" :> "x") @@ ("r2" :> "x") @@
    ("delta" :> "x")

UfoVars == DOMAIN UfoParams_defs

\* The keys of args = self.__dict__.copy() taken at the top of __init__: the
\* parameters of the constructor.
ArgsKeys ==
    {"power", "angle", "speed", "mdot", "rufo", "wufo", "dens_ambient",
     "temp_ambient", "gamma", "norm"}

Dflt(v, stored) == IF v = None THEN stored ELSE v

eqn_pres_ambient(self, dens_ambient, temp_ambient, mua) ==
    LET ta == Dflt(temp_ambient, self.temp_ambient)
        da == Dflt(dens_ambient, self.dens_ambient)
        mu == Dflt(mua, self.mua)
    IN  pres_from_dens_temp(self.eosa, da, ta, mu)

eqn_eint_ambient(self, dens_ambient, temp_ambient, gamma) ==
    LET ta == Dflt(temp_ambient, self.temp_ambient)
        da == Dflt(dens_ambient, self.dens_ambient)
        g == Dflt(gamma, self.gamma)
        pres_ambient == eqn_pres_ambient(self, da, ta, None)
    IN  VDiv(pres_ambient, VMul(da, VSub(g, Num(1))))

eqn_vsnd_ambient(self, dens_ambient, temp_ambient, gamma) ==
    LET ta == Dflt(temp_ambient, self.temp_ambient)
        da == Dflt(dens_ambient, self.dens_ambient)
        g == Dflt(gamma, self.gamma)
        pres_ambient == eqn_pres_ambient(self, da, ta, None)
    IN  VSqrt(VDiv(VMul(g, pres_ambient), da))

eqn_area(self, rufo, wufo) ==
    LET r == Dflt(rufo, self.rufo)
        w == Dflt(wufo, self.wufo)
    IN  VMul(VMul(VMul(Num(2), Num(np_pi)), r), w)

eqn_pres(self, power, speed, mdot, rufo, wufo, gamma) ==
    LET pw == Dflt(power, self.power)
        sp == Dflt(speed, self.speed)
        md == Dflt(mdot, self.mdot)
        r == Dflt(rufo, self.rufo)
        w == Dflt(wufo, self.wufo)
        g == Dflt(gamma, self.gamma)
        area == eqn_area(self, r, w)
    IN  VDiv(VMul(VSub(pw, VMul(VMul(Rat(1, 2), md), VMul(sp, sp))), VSub(g, Num(1))),
             VMul(VMul(g, area), sp))

\* rufo is handed to eqn_area as it came, None included.
eqn_eflx(self, power, rufo, wufo) ==
    LET pw == Dflt(power, self.power)
        w == Dflt(wufo, self.wufo)
        area == eqn_area(self, rufo, w)
    IN  VDiv(pw, area)

eqn_dens(self, speed, mdot, rufo, wufo) ==
    LET sp == Dflt(speed, self.speed)
        md == Dflt(mdot, self.mdot)
        r == Dflt(rufo, self.rufo)
        w == Dflt(wufo, self.wufo)
        area == eqn_area(self, r, w)
    IN  VDiv(md, VMul(area, sp))

\* The local named dens holds eqn_pres and the local named pres holds eqn_dens.
eqn_temp(self, power, speed, mdot, rufo, wufo, gamma, muu) ==
    LET pw == Dflt(power, self.power)
        sp == Dflt(speed, self.speed)
        md == Dflt(mdot, self.mdot)
        r == Dflt(rufo, self.rufo)
        w == Dflt(wufo, self.wufo)
        g == Dflt(gamma, self.gamma)
        mu == Dflt(muu, self.muu)
        dens == eqn_pres(self, pw, sp, md, r, w, g)
        pres == eqn_dens(self, sp, md, r, w)
    IN  temp_from_dens_pres(self.eosu, dens, pres, mu)

eqn_vsnd(self, power, speed, mdot, rufo, wufo, gamma) ==
    LET pw == Dflt(power, self.power)
        sp == Dflt(speed, self.speed)
        md == Dflt(mdot, self.mdot)
        r == Dflt(rufo, self.rufo)
        w == Dflt(wufo, self.wufo)
        g == Dflt(gamma, self.gamma)
        dens == eqn_pres(self, pw, sp, md, r, w, g)
        pres == eqn_dens(self, sp, md, r, w)
    IN  VSqrt(VDiv(VMul(g, pres), dens))

\* eqn_vsnd is called with three positional arguments: power, speed, mdot.
eqn_mach_internal(self, power, speed, mdot, rufo, wufo, gamma) ==
    LET pw == Dflt(power, self.power)
        sp == Dflt(speed, self.speed)
        md == Dflt(mdot, self.mdot)
        r == Dflt(rufo, self.rufo)
        w == Dflt(wufo, self.wufo)
        g == Dflt(gamma, self.gamma)
        pres == eqn_pres(self, pw, sp, md, r, w, g)
        dens == eqn_dens(self, sp, md, r, w)
        vsnd == eqn_vsnd(self, pres, dens, g, None, None, None)
    IN  VDiv(sp, vsnd)

eqn_mach(self, speed, dens_ambient, temp_ambient, gamma) ==
    LET sp == Dflt(speed, self.speed)
        ta == Dflt(temp_ambient, self.temp_ambient)
        da == Dflt(dens_ambient, self.dens_ambient)
        g == Dflt(gamma, self.gamma)
        vsnd == eqn_vsnd_ambient(self, da, ta, g)
    IN  VDiv(sp, vsnd)

eqn_pratio(self, power, speed, mdot, rufo, wufo, gamma, dens_ambient, temp_ambient) ==
    LET pw == Dflt(power, self.power)
        sp == Dflt(speed, self.speed)
        md == Dflt(mdot, self.mdot)
        r == Dflt(rufo, self.rufo)
        w == Dflt(wufo, self.wufo)
        g == Dflt(gamma, self.gamma)
        ta == Dflt(temp_ambient, self.temp_ambient)
        da == Dflt(dens_ambient, self.dens_ambient)
        pres == eqn_pres(self, pw, sp, md, r, w, g)
        pres_ambient == eqn_pres_ambient(self, da, ta, None)
    IN  VDiv(pres, pres_ambient)

eqn_dratio(self, speed, mdot, rufo, wufo, dens_ambient) ==
    LET sp == Dflt(speed, self.speed)
        md == Dflt(mdot, self.mdot)
        r == Dflt(rufo, self.rufo)
        w == Dflt(wufo, self.wufo)
        da == Dflt(dens_ambient, self.dens_ambient)
        dens == eqn_dens(self, sp, md, r, w)
    IN  VDiv(dens, da)

eqn_eint(self, power, speed, mdot, rufo, wufo, gamma) ==
    LET pw == Dflt(power, self.power)
        sp == Dflt(speed, self.speed)
        md == Dflt(mdot, self.mdot)
        r == Dflt(rufo, self.rufo)
        w == Dflt(wufo, self.wufo)
        g == Dflt(gamma, self.gamma)
        pres == eqn_pres(self, pw, sp, md, r, w, g)
        dens == eqn_dens(self, sp, md, r, w)
    IN  VDiv(VMul(VDiv(Num(1), VSub(g, Num(1))), pres), dens)

eqn_enth(self, power, speed, mdot, rufo, wufo, gamma) ==
    LET pw == Dflt(power, self.power)
        sp == Dflt(speed, self.speed)
        md == Dflt(mdot, self.mdot)
        r == Dflt(rufo, self.rufo)
        w == Dflt(wufo, self.wufo)
        g == Dflt(gamma, self.gamma)
        pres == eqn_pres(self, pw, sp, md, r, w, g)
        dens == eqn_dens(self, sp, md, r, w)
        eint == eqn_eint(self, pw, sp, md, r, w, g)
    IN  VAdd(eint, VDiv(pres, dens))

eqn_pdot(self, speed, mdot) ==
    LET sp == Dflt(speed, self.speed)
        md == Dflt(mdot, self.mdot)
    IN  VMul(md, sp)

eqn_pflx(self, speed, mdot, rufo, wufo) ==
    LET sp == Dflt(speed, self.speed)
        md == Dflt(mdot, self.mdot)
        r == Dflt(rufo, self.rufo)
        w == Dflt(wufo, self.wufo)
        area == eqn_area(self, r, w)
        pdot == eqn_pdot(self, sp, md)
    IN  VDiv(pdot, area)

eqn_r1(self, angle, rufo, wufo) ==
    LET a == Dflt(angle, self.angle)
        r == Dflt(rufo, self.rufo)
        w == Dflt(wufo, self.wufo)
    IN  VSub(r, VDiv(VMul(Rat(1, 2), w), np_cos_deg(a)))

eqn_r2(self, angle, rufo, wufo) ==
    LET a == Dflt(angle, self.angle)
        r == Dflt(rufo, self.rufo)
        w == Dflt(wufo, self.wufo)
    IN  VAdd(r, VDiv(VMul(Rat(1, 2), w), np_cos_deg(a)))

\* rufo is accepted and not used.
eqn_delta(self, angle, rufo, wufo) ==
    LET a == Dflt(angle, self.angle)
        w == Dflt(wufo, self.wufo)
    IN  VDiv(w, np_cos_deg(a))

\* The parameter names of every formula eqn_<name>.
eqn_params ==
    ("vsnd" :> {"power", "speed", "mdot", "rufo", "wufo", "gamma"}) @@
    ("mach_internal" :> {"power", "speed", "mdot", "rufo", "wufo", "gamma"}) @@
    ("pres_ambient" :> {"dens_ambient", "temp_ambient", "mua"}) @@
    ("eint_ambient" :> {"dens_ambient", "temp_ambient", "gamma"}) @@
    ("vsnd_ambient" :> {"dens_ambient", "temp_ambient", "gamma"}) @@
    ("area" :> {"rufo", "wufo"}) @@
    ("pres" :> {"power", "speed", "mdot", "rufo", "wufo", "gamma"}) @@
    ("dens" :> {"speed", "mdot", "rufo", "wufo"}) @@
    ("temp" :> {"power", "speed", "mdot", "rufo", "wufo", "gamma", "muu"}) @@
    ("mach" :> {"speed", "dens_ambient", "temp_ambient", "gamma"}) @@
    ("eflx" :> {"power", "rufo", "wufo"}) @@
    ("pratio" :> {"power", "speed", "mdot", "rufo", "wufo", "gamma",
                  "dens_ambient", "temp_ambient"}) @@
    ("dratio" :> {"speed", "mdot", "rufo", "wufo", "dens_ambient"}) @@
    ("eint" :> {"power", "speed", "mdot", "rufo", "wufo", "gamma"}) @@
    ("enth" :> {"power", "speed", "mdot", "rufo", "wufo", "gamma"}) @@
    ("pdot" :> {"speed", "mdot"}) @@
    ("pflx" :> {"speed", "mdot", "rufo", "wufo"}) @@
    ("r1" :> {"angle", "rufo", "wufo"}) @@
    ("r2" :> {"angle", "rufo", "wufo"}) @@
    ("delta" :> {"angle", "rufo", "wufo"})

\* The sets of arguments a call of formula `name` gives a value for: none, any
\* one, or all.
EvalKeywords(name) ==
    {{}, eqn_params[name]} \cup {{n} : n \in eqn_params[name]}

\* The keyword argument n of a call f with keywords kw: None when kw does not name it.
Kw(kw, n) == IF n \in DOMAIN kw THEN kw[n] ELSE None

\* eqn_fn with keywords kw, for eqn_fn = getattr(self, 'eqn_' + var).
eqn_fn(self, var, kw) ==
    CASE var = "vsnd" ->
            eqn_vsnd(self, Kw(kw, "power"), Kw(kw, "speed"), Kw(kw, "mdot"),
                     Kw(kw, "rufo"), Kw(kw, "wufo"), Kw(kw, "gamma"))
      [] var = "mach_internal" ->
            eqn_mach_internal(self, Kw(kw, "power"), Kw(kw, "speed"), Kw(kw, "mdot"),
                              Kw(kw, "rufo"), Kw(kw, "wufo"), Kw(kw, "gamma"))
      [] var = "pres_ambient" ->
            eqn_pres_ambient(self, Kw(kw, "dens_ambient"), Kw(kw, "temp_ambient"), Kw(kw, "mua"))
      [] var = "eint_ambient" ->
            eqn_eint_ambient(self, Kw(kw, "dens_ambient"), Kw(kw, "temp_ambient"), Kw(kw, "gamma"))
      [] var = "vsnd_ambient" ->
            eqn_vsnd_ambient(self, Kw(kw, "dens_ambient"), Kw(kw, "temp_ambient"), Kw(kw, "gamma"))
      [] var = "area" -> eqn_area(self, Kw(kw, "rufo"), Kw(kw, "wufo"))
      [] var = "pres" ->
            eqn_pres(self, Kw(kw, "power"), Kw(kw, "speed"), Kw(kw, "mdot"),
                     Kw(kw, "rufo"), Kw(kw, "wufo"), Kw(kw, "gamma"))
      [] var = "dens" ->
            eqn_dens(self, Kw(kw, "speed"), Kw(kw, "mdot"), Kw(kw, "rufo"), Kw(kw, "wufo"))
      [] var = "temp" ->
            eqn_temp(self, Kw(kw, "power"), Kw(kw, "speed"), Kw(kw, "mdot"),
                     Kw(kw, "rufo"), Kw(kw, "wufo"), Kw(kw, "gamma"), Kw(kw, "muu"))
      [] var = "mach" ->
            eqn_mach(self, Kw(kw, "speed"), Kw(kw, "dens_ambient"),
                     Kw(kw, "temp_ambient"), Kw(kw, "gamma"))
      [] var = "eflx" -> eqn_eflx(self, Kw(kw, "power"), Kw(kw, "rufo"), Kw(kw, "wufo"))
      [] var = "pratio" ->
            eqn_pratio(self, Kw(kw, "power"), Kw(kw, "speed"), Kw(kw, "mdot"),
                       Kw(kw, "rufo"), Kw(kw, "wufo"), Kw(kw, "gamma"),
                       Kw(kw, "dens_ambient"), Kw(kw, "temp_ambient"))
      [] var = "dratio" ->
            eqn_dratio(self, Kw(kw, "speed"), Kw(kw, "mdot"), Kw(kw, "rufo"),
                       Kw(kw, "wufo"), Kw(kw, "dens_ambient"))
      [] var = "eint" ->
            eqn_eint(self, Kw(kw, "power"), Kw(kw, "speed"), Kw(kw, "mdot"),
                     Kw(kw, "rufo"), Kw(kw, "wufo"), Kw(kw, "gamma"))
      [] var = "enth" ->
            eqn_enth(self, Kw(kw, "power"), Kw(kw, "speed"), Kw(kw, "mdot"),
                     Kw(kw, "rufo"), Kw(kw, "wufo"), Kw(kw, "gamma"))
      [] var = "pdot" -> eqn_pdot(self, Kw(kw, "speed"), Kw(kw, "mdot"))
      [] var = "pflx" ->
            eqn_pflx(self, Kw(kw, "speed"), Kw(kw, "mdot"), Kw(kw, "rufo"), Kw(kw, "wufo"))
      [] var = "r1" -> eqn_r1(self, Kw(kw, "angle"), Kw(kw, "rufo"), Kw(kw, "wufo"))
      [] var = "r2" -> eqn_r2(self, Kw(kw, "angle"), Kw(kw, "rufo"), Kw(kw, "wufo"))
      [] var = "delta" -> eqn_delta(self, Kw(kw, "angle"), Kw(kw, "rufo"), Kw(kw, "wufo"))

\* eqn_eint divides the Python float 1. by gamma - 1., and eqn_enth calls
\* eqn_eint: with an adiabatic index of 1 the division raises
\* ZeroDivisionError.  (Every other division has a numpy operand and yields inf
\* or nan.)
eqn_raises(self, var, kw) ==
    var \in {"eint", "enth"} /\ Dflt(Kw(kw, "gamma"), self.gamma) = Num(1)

\* upd_fn that also stores the keywords it was called with.
upd_fn_stores_kwargs(self, var, kw) ==
    IF ~(DOMAIN kw \subseteq eqn_params[var]) \/ eqn_raises(self, var, kw)
    THEN [self |-> self, raised |-> TRUE, ret |-> None]
    ELSE LET val == eqn_fn(self, var, kw)
             new == (var :> val) @@ kw @@ self
         IN  [self |-> new, raised |-> FALSE, ret |-> new[var]]

\* upd_fn that, called with keywords, returns the value of the formula and
\* stores nothing.
upd_fn_discards(self, var, kw) ==
    IF ~(DOMAIN kw \subseteq eqn_params[var]) \/ eqn_raises(self, var, kw)
    THEN [self |-> self, raised |-> TRUE, ret |-> None]
    ELSE LET val == eqn_fn(self, var, kw)
             new == IF kw = <<>> THEN (var :> val) @@ self ELSE self
         IN  [self |-> new, raised |-> FALSE, ret |-> val]

\* upd_fn that clears the attribute before it evaluates the formula.
upd_fn_clears_first(self, var, kw) ==
    IF ~(DOMAIN kw \subseteq eqn_params[var]) \/ eqn_raises(self, var, kw)
    THEN [self |-> (var :> Num(0)) @@ self, raised |-> TRUE, ret |-> None]
    ELSE LET val == eqn_fn(self, var, kw)
             new == (var :> val) @@ self
         IN  [self |-> new, raised |-> FALSE, ret |-> new[var]]

\* upd_fn that, called with keywords, stores 0 when the value of the formula
\* is the stored value already.
upd_fn_toggles(self, var, kw) ==
    IF ~(DOMAIN kw \subseteq eqn_params[var]) \/ eqn_raises(self, var, kw)
    THEN [self |-> self, raised |-> TRUE, ret |-> None]
    ELSE LET val == eqn_fn(self, var, kw)
             new == (var :> IF kw # <<>> /\ self[var] = val THEN Num(0) ELSE val) @@ self
         IN  [self |-> new, raised |-> FALSE, ret |-> new[var]]

\* upd_fn of create_upd_fn(var), called with keywords kw: setattr(self, var, eqn_fn(...)) and
\* return getattr(self, var).  A keyword eqn_fn does not take is a TypeError
\* raised by the call, and an error raised inside eqn_fn leaves it, before
\* setattr.
upd_fn(self, var, kw) ==
    IF ~(DOMAIN kw \subseteq eqn_params[var]) \/ eqn_raises(self, var, kw)
    THEN [self |-> self, raised |-> TRUE, ret |-> None]
    ELSE LET val == eqn_fn(self, var, kw)
             new == (var :> val) @@ self
         IN  [self |-> new, raised |-> FALSE, ret |-> new[var]]

\* The variables the loops of __init__ and update_all call upd_<var>() for:
\* those of defs, in order, that args has no key for.
upd_order == SelectSeq(UfoParams_keys, LAMBDA var : var \notin ArgsKeys)

\* for var in self.defs: if not args.has_key(var): upd_<var>(), from position i.
\* (No object has an empty DOMAIN: that test only has the object computed before
\* the next call is entered.)
RECURSIVE upd_loop(_, _)
upd_loop(self, i) ==
    IF i > Len(upd_order) \/ DOMAIN self = {} THEN self
    ELSE upd_loop(upd_fn(self, upd_order[i], <<>>).self, i + 1)

\* getattr(self.norm, k): the scaling of PhysNorm key k, as a number.
norm_attr(sc, k) == ScValue(sc[k])

norm_table(sc) == [k \in DOMAIN sc |-> norm_attr(sc, k)]

\* The attributes __init__ sets before the update loop: muu, mua, the two EOS
\* objects, and the given values brought to code units.
UfoParams_args(in, sc) ==
    [power |-> VDiv(in.power, norm_attr(sc, UfoParams_defs["power"])),
     angle |-> in.angle,
     speed |-> VDiv(VMul(in.speed, Num(pc_c)), norm_attr(sc, UfoParams_defs["speed"])),
     mdot |-> VDiv(VDiv(VMul(in.mdot, Num(pc_msun)), Num(pc_yr)),
                   norm_attr(sc, UfoParams_defs["mdot"])),
     rufo |-> VDiv(VMul(in.rufo, Num(pc_kpc)), norm_attr(sc, UfoParams_defs["rufo"])),
     wufo |-> VDiv(VMul(in.wufo, Num(pc_kpc)), norm_attr(sc, UfoParams_defs["wufo"])),
     dens_ambient |-> VDiv(VMul(VMul(in.dens_ambient, CompositionBase_mu), Num(pc_amu)),
                           norm_attr(sc, UfoParams_defs["dens_ambient"])),
     temp_ambient |-> VDiv(in.temp_ambient, norm_attr(sc, UfoParams_defs["temp_ambient"])),
     gamma |-> in.gamma]

\* The attributes that are no variable of defs.
UfoParams_fixed(sc) ==
    [muu |-> CompositionBase_mu,
     mua |-> CompositionBase_mu,
     eosu |-> EOSIdeal(None, None, None, CompositionBase_mu, norm_table(sc), norm_table(sc)),
     eosa |-> EOSIdeal(None, None, None, CompositionBase_mu, norm_table(sc), norm_table(sc))]

\* The object the formulas see: the stored variables and the fixed attributes.
Self(at, sc) == at @@ UfoParams_fixed(sc)

\* The stored variables of an object.
Stored(self) == [k \in (DOMAIN self) \cap UfoVars |-> self[k]]

\* update_dictionary_code
dictionary_code(at) == [k \in UfoVars |-> at[k]]

\* update_dictionary_cgs
dictionary_cgs(at, sc) ==
    [k \in UfoVars |-> VMul(at[k], norm_attr(sc, UfoParams_defs[k]))]

\* The keys of an OrderedDict with keys `keys` after d[k] = ... for the k of ks,
\* in order: a new key goes to the end, a key already there keeps its place.
RECURSIVE OrderedDict_keys(_, _)
OrderedDict_keys(keys, ks) ==
    IF ks = <<>> THEN keys
    ELSE OrderedDict_keys(IF \E i \in 1..Len(keys) : keys[i] = Head(ks)
                          THEN keys ELSE Append(keys, Head(ks)),
                          Tail(ks))

\* The keys in the reverse order.
dictionary_keys_reversed ==
    [i \in 1..Len(UfoParams_keys) |-> UfoParams_keys[Len(UfoParams_keys) + 1 - i]]

\* The keys after OrderedDict() and `for k in self.defs: d[k] = ...`.
dictionary_keys == OrderedDict_keys(<<>>, UfoParams_keys)

(***************************************************************************)
(* The arguments the model constructs UfoParams with.                      *)
(***************************************************************************)
\* The calls UfoParams(norm = PhysNorm(anchors), given values) the model
\* starts from: <<anchors, values>>.  The anchors are the keys of the default
\* normalisation; the values are physical values of the nine given variables.
UfoCalls ==
    {<<("x" :> Num(1)) @@ ("t" :> Num(0)) @@ ("curr" :> Num(0)) @@ ("temp" :> Num(1)) @@
         ("dens" :> Num(1)),
       [power |-> Num(1280), angle |-> Num(60), speed |-> Num(2), mdot |-> Num(16),
        rufo |-> Num(1), wufo |-> Num(1), dens_ambient |-> Num(2),
        temp_ambient |-> Num(2), gamma |-> Num(2)]>>,
     <<("x" :> Num(0)) @@ ("t" :> Num(1)) @@ ("curr" :> Num(0)) @@ ("temp" :> Num(0)) @@
         ("dens" :> Num(0)),
       [power |-> Num(640), angle |-> Num(0), speed |-> Num(1), mdot |-> Num(8),
        rufo |-> Num(2), wufo |-> Num(1), dens_ambient |-> Num(1),
        temp_ambient |-> Num(4), gamma |-> Rat(3, 2)]>>}

\* The argument names a call of upd_<var> overrides in the model: every formula
\* takes at least one of them.
OverrideNames == {"rufo", "speed", "dens_ambient", "angle", "mua", "muu"}

\* The values an override of a formula's argument is drawn from.
OverrideVals(n) ==
    IF n = "angle" THEN {Num(0)} ELSE IF n = "power" THEN {Num(5120)} ELSE {Num(3)}

\* The keyword arguments of a call of upd_<var>: none, one argument of the
\* formula among OverrideNames, a name the formula does not take, or (for the
\* two formulas that divide by gamma - 1. in Python floats) gamma = 1.
Overrides(var) ==
    {<<>>} \cup UNION {{(n :> v) : v \in OverrideVals(n)} : n \in eqn_params[var] \cap OverrideNames}
           \cup {("bogus" :> Num(3))}
           \cup (IF var \in {"eint", "enth"} THEN {("gamma" :> Num(1))} ELSE {})

\* The keyword arguments of a direct call of eqn_<name>: none, or one
\* parameter of the formula, with the stored value or with another value.
EqnKeywords(self, name) ==
    {<<>>} \cup UNION {{(n :> v) : v \in OverrideVals(n) \cup {self[n]}} : n \in eqn_params[name]}

(***************************************************************************)
(* State.                                                                  *)
(***************************************************************************)
VARIABLES
    kwargs,     \* the keyword arguments PhysNorm was called with
    nstatus,    \* "new" before the call; then "ok" or the error raised
    nerr,       \* the key or base dimension the error message names
    scalings,   \* self.scalings (empty when the constructor raised)
    inputs,     \* the given values UfoParams was constructed with
    attrs,      \* the variables of defs stored as attributes (code units)
    vars_code,  \* self.vars_code: the value of each key
    keys_code,  \* the keys of self.vars_code, in the order of the OrderedDict
    vars_cgs,   \* self.vars_cgs: the value of each key
    keys_cgs,   \* the keys of self.vars_cgs, in the order of the OrderedDict
    nupd,       \* the number of upd_<var> calls so far, the repetition apart
    last,       \* the last call: its name ("rebuild" for every call that only
                \* rebuilds or prints the dictionaries), arguments, result,
                \* the variables whose upd_<var> it called, and how many
                \* times in a row the call has now been made
    eos,        \* an EOSIdeal object of its own (SpecEos)
    stack,      \* the calls in progress, outermost first (SpecEval)
    store,      \* the names of the attributes self has (SpecEval)
    done,       \* the variables whose upd_<var> has returned, in order (SpecEval)
    status      \* "run", then "done" or the error raised (SpecEval)

nvars == <<kwargs, nstatus, nerr, scalings>>

uvars == <<inputs, attrs, vars_code, keys_code, vars_cgs, keys_cgs, nupd, last>>

evars == <<stack, store, done, status>>

vars ==
    <<kwargs, nstatus, nerr, scalings, inputs, attrs, vars_code, keys_code, vars_cgs,
      keys_cgs, nupd, last, eos, stack, store, done, status>>

Call(op, var, kw, raised, ret, evals) ==
    [op |-> op, var |-> var, kw |-> kw, raised |-> raised, ret |-> ret, evals |-> evals,
     times |-> 1]

\* What last holds after a call that only rebuilds or prints the dictionaries.
Rebuild == Call("rebuild", "", <<>>, FALSE, None, <<>>)

(***************************************************************************)
(* PhysNorm alone: one construction from any anchors.                      *)
(***************************************************************************)
\* No PhysNorm and no UfoParams object has been constructed.
Unconstructed ==
    /\ kwargs = <<>>
    /\ nstatus = "new"
    /\ nerr = ""
    /\ scalings = <<>>
    /\ inputs = <<>>
    /\ attrs = <<>>
    /\ vars_code = <<>>
    /\ keys_code = <<>>
    /\ vars_cgs = <<>>
    /\ keys_cgs = <<>>
    /\ nupd = 0
    /\ last = Call("none", "", <<>>, FALSE, None, <<>>)

\* No EOSIdeal object of its own.
EosIdle == eos = <<>>

\* No call is being followed step by step.
EvalIdle == stack = <<>> /\ store = {} /\ done = <<>> /\ status = ""

NormInit == Unconstructed /\ EosIdle /\ EvalIdle

PhysNorm__init__ ==
    /\ nstatus = "new"
    /\ \E kw \in AnchorSets : \E r \in PhysNorm(kw) :
        /\ kwargs' = kw
        /\ nstatus' = r.status
        /\ nerr' = r.err
        /\ scalings' = r.scalings
    /\ UNCHANGED uvars
    /\ UNCHANGED <<eos, evars>>

NormNext == PhysNorm__init__

SpecNorm == NormInit /\ [][NormNext]_vars

(***************************************************************************)
(* EOSIdeal alone: an object constructed from any of dens, pres and temp,  *)
(* and calls of auto_eos on it.                                            *)
(***************************************************************************)
\* The values dens, pres and temp are constructed from.
EosVals == {None, Num(0), Num(2), Num(3)}

\* The scaling tables of the normalisations the object is constructed with:
\* the default one (every anchor 1) and that of the anchors x = temp = dens = 2,
\* t = curr = 1.
EosNorms ==
    {norm_table(r.scalings) :
        r \in PhysNorm([k \in {"x", "m", "t", "curr", "temp"} |-> Num(0)])
                \cup UNION {PhysNorm(c[1]) : c \in {u \in UfoCalls : u[1]["x"] = Num(1)}}}

EosInit ==
    /\ Unconstructed
    /\ EvalIdle
    /\ \E dens \in EosVals, pres \in EosVals, temp \in EosVals :
        \E inorm \in EosNorms, onorm \in EosNorms :
            eos = EOSIdeal(dens, pres, temp, CompositionBase_mu, inorm, onorm)

EOSIdeal_auto_eos ==
    /\ \E r \in {auto_eos(eos)} :
        /\ eos' = r.eos
        /\ last' = Call("auto_eos", "", <<>>, r.raised, r.ret, <<>>)
    /\ UNCHANGED <<inputs, attrs, vars_code, keys_code, vars_cgs, keys_cgs, nupd>>
    /\ UNCHANGED nvars
    /\ UNCHANGED evars

EosNext == EOSIdeal_auto_eos

SpecEos == EosInit /\ [][EosNext]_vars

(***************************************************************************)
(* UfoParams: the state after UfoParams(norm, inputs), norm being   *)
(* PhysNorm of kwargs, and the calls made on the object.                                     *)
(***************************************************************************)
\* UfoParams.__init__: the stored variables after the update loop.
UfoParams__init__(in, sc) ==
    Stored(upd_loop(Self(UfoParams_args(in, sc), sc), 1))

Init ==
    /\ \E c \in UfoCalls : kwargs = c[1] /\ inputs = c[2]
    /\ nstatus = "ok"
    /\ nerr = ""
    /\ \E r \in PhysNorm(kwargs) : r.status = "ok" /\ scalings = r.scalings
    /\ attrs = UfoParams__init__(inputs, scalings)
    /\ vars_code = dictionary_code(attrs)
    /\ keys_code = dictionary_keys
    /\ vars_cgs = dictionary_cgs(attrs, scalings)
    /\ keys_cgs = dictionary_keys
    /\ nupd = 0
    /\ last = Call("__init__", "", <<>>, FALSE, None, upd_order)
    /\ EosIdle
    /\ EvalIdle

\* upd_<var> with keywords kw, for the variables that have an upd_ function.
upd ==
    /\ \E var \in UfoVars \ ArgsKeys : \E kw \in Overrides(var) : \E again \in BOOLEAN :
        /\ IF again
           THEN /\ nupd = MaxUpd
                /\ last.op = "upd" /\ last.var = var /\ last.kw = kw
                /\ last.times = 1
           ELSE nupd < MaxUpd
        /\ \E r \in {upd_fn(Self(attrs, scalings), var, kw)} :
            /\ attrs' = Stored(r.self)
            /\ last' = [Call("upd", var, kw, r.raised, r.ret, <<var>>)
                           EXCEPT !.times = IF again THEN last.times + 1 ELSE 1]
        /\ nupd' = IF again THEN nupd ELSE nupd + 1
    /\ UNCHANGED <<vars_code, keys_code, vars_cgs, keys_cgs, inputs>>
    /\ UNCHANGED nvars
    /\ UNCHANGED <<eos, evars>>

\* update_all as its docstring describes it: every attribute is updated except
\* the one changed by the call of upd_<var> just before.
update_all_except_changed ==
    /\ attrs' = [k \in UfoVars |->
                    IF last.op = "upd" /\ k = last.var THEN attrs[k]
                    ELSE Stored(upd_loop(Self(attrs, scalings), 1))[k]]
    /\ vars_code' = dictionary_code(attrs')
    /\ keys_code' = dictionary_keys
    /\ vars_cgs' = dictionary_cgs(attrs', scalings)
    /\ keys_cgs' = dictionary_keys
    /\ last' = Call("update_all", "", <<>>, FALSE, None, upd_order)
    /\ UNCHANGED <<inputs, nupd>>
    /\ UNCHANGED nvars
    /\ UNCHANGED <<eos, evars>>

update_all ==
    /\ attrs' = Stored(upd_loop(Self(attrs, scalings), 1))
    /\ vars_code' = dictionary_code(attrs')
    /\ keys_code' = dictionary_keys
    /\ vars_cgs' = dictionary_cgs(attrs', scalings)
    /\ keys_cgs' = dictionary_keys
    /\ last' = Call("update_all", "", <<>>, FALSE, None, upd_order)
    /\ UNCHANGED <<inputs, nupd>>
    /\ UNCHANGED nvars
    /\ UNCHANGED <<eos, evars>>

update_all_dictionaries ==
    /\ vars_code' = dictionary_code(attrs)
    /\ keys_code' = dictionary_keys
    /\ vars_cgs' = dictionary_cgs(attrs, scalings)
    /\ keys_cgs' = dictionary_keys
    /\ last' = Rebuild
    /\ UNCHANGED <<inputs, attrs, nupd>>
    /\ UNCHANGED nvars
    /\ UNCHANGED <<eos, evars>>

update_dictionary_code ==
    /\ vars_code' = dictionary_code(attrs)
    /\ keys_code' = dictionary_keys
    /\ last' = Rebuild
    /\ UNCHANGED <<inputs, attrs, vars_cgs, keys_cgs, nupd>>
    /\ UNCHANGED nvars
    /\ UNCHANGED <<eos, evars>>

update_dictionary_cgs ==
    /\ vars_cgs' = dictionary_cgs(attrs, scalings)
    /\ keys_cgs' = dictionary_keys
    /\ last' = Rebuild
    /\ UNCHANGED <<inputs, attrs, vars_code, keys_code, nupd>>
    /\ UNCHANGED nvars
    /\ UNCHANGED <<eos, evars>>

\* print_all_code rebuilds vars_code and prints it.
print_all_code ==
    /\ vars_code' = dictionary_code(attrs)
    /\ keys_code' = dictionary_keys
    /\ last' = Rebuild
    /\ UNCHANGED <<inputs, attrs, vars_cgs, keys_cgs, nupd>>
    /\ UNCHANGED nvars
    /\ UNCHANGED <<eos, evars>>

\* print_all_cgs rebuilds vars_cgs and prints it.
print_all_cgs ==
    /\ vars_cgs' = dictionary_cgs(attrs, scalings)
    /\ keys_cgs' = dictionary_keys
    /\ last' = Rebuild
    /\ UNCHANGED <<inputs, attrs, vars_code, keys_code, nupd>>
    /\ UNCHANGED nvars
    /\ UNCHANGED <<eos, evars>>

\* print_all rebuilds both dictionaries and prints them side by side.
print_all ==
    /\ vars_code' = dictionary_code(attrs)
    /\ keys_code' = dictionary_keys
    /\ vars_cgs' = dictionary_cgs(attrs, scalings)
    /\ keys_cgs' = dictionary_keys
    /\ last' = Rebuild
    /\ UNCHANGED <<inputs, attrs, nupd>>
    /\ UNCHANGED nvars
    /\ UNCHANGED <<eos, evars>>

\* A direct call of the method eqn_<name> with keywords kw: nothing is stored.
eqn ==
    /\ \E name \in DOMAIN eqn_params :
        \E kw \in EqnKeywords(Self(attrs, scalings), name) :
            LET self == Self(attrs, scalings)
                raised == eqn_raises(self, name, kw)
            IN  last' = Call("eqn", name, kw, raised,
                             IF raised THEN None ELSE eqn_fn(self, name, kw), <<>>)
    /\ UNCHANGED <<inputs, attrs, vars_code, keys_code, vars_cgs, keys_cgs, nupd>>
    /\ UNCHANGED nvars
    /\ UNCHANGED <<eos, evars>>

EqnNext == eqn

\* The formulas alone: calls of eqn_<name> on the object as constructed.
SpecEqn == Init /\ [][EqnNext]_vars

Next ==
    \/ upd
    \/ update_all
    \/ update_all_dictionaries
    \/ update_dictionary_code
    \/ update_dictionary_cgs
    \/ print_all_code
    \/ print_all_cgs
    \/ print_all

Spec == Init /\ [][Next]_vars

(***************************************************************************)
(* The evaluation of the formulas, call by call.  Values are left out:     *)
(* store is the set of the names of the attributes the object has, stack   *)
(* the call stack (a frame holds the function, the variable or formula it  *)
(* is for, the names of the arguments it was given a value for, and its    *)
(* position), done the variables updated by the loop in progress.          *)
(***************************************************************************)
\* The arguments a formula replaces by the attribute of the same name when
\* they are None (`if x == None: x = self.x`).
eqn_resolves ==
    ("pres_ambient" :> {"temp_ambient", "dens_ambient", "mua"}) @@
    ("eint_ambient" :> {"temp_ambient", "dens_ambient", "gamma"}) @@
    ("vsnd_ambient" :> {"temp_ambient", "dens_ambient", "gamma"}) @@
    ("area" :> {"rufo", "wufo"}) @@
    ("pres" :> {"power", "speed", "mdot", "rufo", "wufo", "gamma"}) @@
    ("eflx" :> {"power", "wufo"}) @@
    ("dens" :> {"speed", "mdot", "rufo", "wufo"}) @@
    ("temp" :> {"power", "speed", "mdot", "rufo", "wufo", "gamma", "muu"}) @@
    ("vsnd" :> {"power", "speed", "mdot", "rufo", "wufo", "gamma"}) @@
    ("mach_internal" :> {"power", "speed", "mdot", "rufo", "wufo", "gamma"}) @@
    ("mach" :> {"speed", "temp_ambient", "dens_ambient", "gamma"}) @@
    ("pratio" :> {"power", "speed", "mdot", "rufo", "wufo", "gamma",
                  "temp_ambient", "dens_ambient"}) @@
    ("dratio" :> {"speed", "mdot", "rufo", "wufo", "dens_ambient"}) @@
    ("eint" :> {"power", "speed", "mdot", "rufo", "wufo", "gamma"}) @@
    ("enth" :> {"power", "speed", "mdot", "rufo", "wufo", "gamma"}) @@
    ("pdot" :> {"speed", "mdot"}) @@
    ("pflx" :> {"speed", "mdot", "rufo", "wufo"}) @@
    ("r1" :> {"angle", "rufo", "wufo"}) @@
    ("r2" :> {"angle", "rufo", "wufo"}) @@
    ("delta" :> {"angle", "wufo"})

\* The EOS object a formula calls a method of.
eqn_eos(name) ==
    IF name = "pres_ambient" THEN {"eosa"} ELSE IF name = "temp" THEN {"eosu"} ELSE {}

\* eqn_eint computing the internal energy from the stored enthalpy.
eqn_reads_enth(name, given) ==
    (eqn_resolves[name] \ given) \cup eqn_eos(name)
        \cup (IF name = "eint" THEN {"enth"} ELSE {})

\* The attributes formula `name` reads from the object when it is called with
\* values for the arguments `given`.
eqn_reads(name, given) == (eqn_resolves[name] \ given) \cup eqn_eos(name)

Frame(fn, name, given) == [fn |-> fn, name |-> name, given |-> given, pc |-> 0]

\* The formulas formula `name` calls, in order, each with the arguments it
\* passes a value for (every argument the caller has resolved is a value;
\* eqn_eflx passes rufo as it got it).
eqn_calls(name, given) ==
    LET ambient == Frame("eqn", "pres_ambient", {"dens_ambient", "temp_ambient"})
        area == Frame("eqn", "area", {"rufo", "wufo"})
        pres == Frame("eqn", "pres", {"power", "speed", "mdot", "rufo", "wufo", "gamma"})
        dens == Frame("eqn", "dens", {"speed", "mdot", "rufo", "wufo"})
    IN  CASE name \in {"eint_ambient", "vsnd_ambient"} -> <<ambient>>
          [] name \in {"pres", "dens"} -> <<area>>
          [] name = "eflx" ->
                <<Frame("eqn", "area", {"wufo"} \cup (given \cap {"rufo"}))>>
          [] name \in {"temp", "vsnd", "eint"} -> <<pres, dens>>
          [] name = "mach_internal" ->
                <<pres, dens, Frame("eqn", "vsnd", {"power", "speed", "mdot"})>>
          [] name = "mach" ->
                <<Frame("eqn", "vsnd_ambient", {"dens_ambient", "temp_ambient", "gamma"})>>
          [] name = "pratio" -> <<pres, ambient>>
          [] name = "dratio" -> <<dens>>
          [] name = "enth" ->
                <<pres, dens,
                  Frame("eqn", "eint", {"power", "speed", "mdot", "rufo", "wufo", "gamma"})>>
          [] name = "pflx" -> <<area, Frame("eqn", "pdot", {"speed", "mdot"})>>
          [] OTHER -> <<>>

\* A formula that calls itself.
NextCall_self(f) == Frame("eqn", f.name, {})

\* The call the formula of frame f makes at its position.
NextCall(f) == eqn_calls(f.name, f.given)[f.pc]

\* The attributes __init__ sets before its update loop.
UfoParams_attributes ==
    ArgsKeys \cup {"defs", "norm", "uc", "muu", "ic", "mua", "eosu", "eosa", "args"}

Top == stack[Len(stack)]

\* The stack after the top frame has returned to its caller.
Return ==
    IF Len(stack) = 1 THEN <<>>
    ELSE [SubSeq(stack, 1, Len(stack) - 1) EXCEPT ![Len(stack) - 1].pc = @ + 1]

\* The stack after the top frame has called f.
Enter(f) == Append(stack, f)

Running == stack # <<>> /\ status = "running"

\* An object exists and no call is in progress.
Returned == stack = <<>> /\ status = "returned"

InLoop == Running /\ Top.fn \in {"__init__", "update_all"}

EvalInit == Unconstructed /\ EosIdle /\ EvalIdle

\* UfoParams(...) is called: the attributes are set and the loop begins.
UfoParams_construct ==
    /\ stack = <<>> /\ status = ""
    /\ stack' = <<Frame("__init__", "", {})>>
    /\ store' = UfoParams_attributes
    /\ done' = <<>>
    /\ status' = "running"

call_update_all ==
    /\ Returned
    /\ stack' = <<Frame("update_all", "", {})>>
    /\ done' = <<>>
    /\ status' = "running"
    /\ UNCHANGED store

\* upd_<var>(**kw) is called on the object, with keywords the formula has.
call_upd ==
    /\ Returned
    /\ \E var \in UfoVars \ ArgsKeys : \E given \in EvalKeywords(var) :
            stack' = <<Frame("upd", var, given)>>
    /\ status' = "running"
    /\ UNCHANGED <<store, done>>

\* eqn_<name>(**kw) is called on the object.
call_eqn ==
    /\ Returned
    /\ \E name \in DOMAIN eqn_params : \E given \in EvalKeywords(name) :
            stack' = <<Frame("eqn", name, given)>>
    /\ status' = "running"
    /\ UNCHANGED <<store, done>>

\* One turn of `for var in self.defs: if not args.has_key(var)`: __init__
\* creates upd_<var> (which looks eqn_<var> up) and calls it, update_all looks
\* upd_<var> up and calls it.
loop_next ==
    /\ InLoop
    /\ Top.pc < Len(upd_order)
    /\ LET var == upd_order[Top.pc + 1]
           found == IF Top.fn = "__init__" THEN var \in DOMAIN eqn_resolves
                    ELSE ("upd_" \o var) \in store
       IN  IF found
           THEN /\ stack' = Enter(Frame("upd", var, {}))
                /\ store' = store \cup {"upd_" \o var}
                /\ status' = status
           ELSE /\ stack' = <<>>
                /\ store' = store
                /\ status' = "AttributeError"
    /\ UNCHANGED done

\* The loop is over: update_all_dictionaries reads the attribute of every key
\* of defs, and the call returns.
loop_end ==
    /\ InLoop
    /\ Top.pc = Len(upd_order)
    /\ stack' = <<>>
    /\ status' = IF UfoVars \subseteq store THEN "returned" ELSE "AttributeError"
    /\ UNCHANGED <<store, done>>

\* upd_fn calls eqn_fn(**kwargs).
upd_call ==
    /\ Running
    /\ Top.fn = "upd" /\ Top.pc = 0
    /\ stack' = Enter(Frame("eqn", Top.name, Top.given))
    /\ UNCHANGED <<store, done, status>>

\* upd_fn stores the value (setattr) and returns it.
upd_store ==
    /\ Running
    /\ Top.fn = "upd" /\ Top.pc = 1
    /\ store' = store \cup {Top.name}
    /\ stack' = Return
    /\ done' = IF Len(stack) > 1 THEN Append(done, Top.name) ELSE done
    /\ status' = IF Len(stack) = 1 THEN "returned" ELSE status

\* A formula replaces the arguments that are None by attributes.
eqn_resolve ==
    /\ Running
    /\ Top.fn = "eqn" /\ Top.pc = 0
    /\ IF eqn_reads(Top.name, Top.given) \subseteq store
       THEN /\ stack' = [stack EXCEPT ![Len(stack)].pc = 1]
            /\ status' = status
       ELSE /\ stack' = <<>>
            /\ status' = "AttributeError"
    /\ UNCHANGED <<store, done>>

\* A formula calls the next of the formulas it uses.
eqn_call ==
    /\ Running
    /\ Top.fn = "eqn" /\ Top.pc \in 1..Len(eqn_calls(Top.name, Top.given))
    /\ IF Len(stack) < MaxDepth
       THEN /\ stack' = Enter(NextCall(Top))
            /\ status' = status
       ELSE /\ stack' = <<>>
            /\ status' = "RuntimeError"
    /\ UNCHANGED <<store, done>>

\* A formula has made all its calls and returns its value.
eqn_return ==
    /\ Running
    /\ Top.fn = "eqn" /\ Top.pc = Len(eqn_calls(Top.name, Top.given)) + 1
    /\ stack' = Return
    /\ status' = IF Len(stack) = 1 THEN "returned" ELSE status
    /\ UNCHANGED <<store, done>>

\* The steps of a call in progress.
EvalStep ==
    /\ \/ loop_next
       \/ loop_end
       \/ upd_call
       \/ upd_store
       \/ eqn_resolve
       \/ eqn_call
       \/ eqn_return
    /\ UNCHANGED <<nvars, uvars, eos>>

\* The calls made on the object.
EvalCall ==
    /\ \/ UfoParams_construct
       \/ call_update_all
       \/ call_upd
       \/ call_eqn
    /\ UNCHANGED <<nvars, uvars, eos>>

EvalNext == EvalCall \/ EvalStep

\* A call that has begun goes on until it returns or raises: the interpreter
\* runs one thread.
SpecEval == EvalInit /\ [][EvalNext]_vars /\ WF_vars(EvalStep)

\* Every stored value and every dictionary entry is a number of the model.
NoNaV ==
    nstatus = "ok" /\ attrs # <<>> =>
        \A k \in UfoVars : IsNum(attrs[k]) /\ IsNum(vars_code[k]) /\ IsNum(vars_cgs[k])

(***************************************************************************)
(* Properties of PhysNorm, under SpecNorm.                                 *)
(***************************************************************************)
\* The keys of the five base dimensions, in the order of dimdefs.
BaseKeys == <<"x", "m", "t", "curr", "temp">>

\* Every supplied key is a key of self.defs.
KnownKeys == DOMAIN kwargs \subseteq DOMAIN PhysNorm_defs

\* The constructor has been called.
Called == nstatus # "new"

\* The anchors of kw restricted to the keys T.
Anchors(kw, T) == [k \in T |-> kw[k]]

\* The sets of five supplied anchors whose exponent vectors are independent.
Determining(kw) ==
    {T \in SUBSET (DOMAIN kw \cap DOMAIN PhysNorm_defs) :
        Cardinality(T) = ndims /\ Det(PhysNorm_dims(Anchors(kw, T))) # 0}

\* The exponent vectors of the supplied anchors span the five base dimensions.
Spans(kw) == Determining(kw) # {}

\* The base dimensions with exponent zero in every supplied anchor.
ZeroDims(kw) ==
    {i \in 1..ndims : \A k \in DOMAIN kw \cap DOMAIN PhysNorm_defs : PhysNorm_defs[k][i] = 0}

\* The exponent vectors of the anchors S of kw, each with the base-2 logarithm
\* of the anchor's value (an integer for every value of AnchorVals) appended.
Augmented(kw, S) ==
    LET ks == kwargs_od_keys(Anchors(kw, S))
    IN  [j \in 1..Len(ks) |-> PhysNorm_defs[ks[j]] \o <<kw[ks[j]][1]>>]

\* Some base scalings give every anchor of kw its value: the anchors span the
\* base dimensions and the values add no rank to the exponent vectors.
Consistent(kw) ==
    /\ Spans(kw)
    /\ \A S \in SUBSET (DOMAIN kw \cap DOMAIN PhysNorm_defs) :
          Cardinality(S) = ndims + 1 => Det(Augmented(kw, S)) = 0

\* C3: in every table PhysNorm builds, the scaling of each key is the product
\* of the scalings of x, m, t, curr, temp raised to the key's exponents; for
\* pres that is m * x^-1 * t^-2.
C3_Multiplicative ==
    nstatus = "ok" =>
        /\ \A d \in DOMAIN PhysNorm_defs :
             scalings[d] =
                 ScProd([i \in 1..ndims |-> ScPow(scalings[BaseKeys[i]], Num(PhysNorm_defs[d][i]))])
        /\ scalings["pres"] =
               ScProd(<<scalings["m"], ScPow(scalings["x"], Num(-1)),
                        ScPow(scalings["t"], Num(-2))>>)

\* A table built from anchors that are not all base keys, with a pressure
\* scaling other than one.
C3_Witness ==
    /\ nstatus = "ok"
    /\ {"dens", "pres"} \subseteq DOMAIN kwargs
    /\ scalings["pres"] # ScOne
    /\ scalings["m"] # ScOne

C6_NamesDimension ==
    Called /\ KnownKeys /\ ZeroDims(kwargs) # {} =>
        /\ nstatus = "Incomplete"
        /\ nerr = dimdefs[CHOOSE i \in ZeroDims(kwargs) : \A j \in ZeroDims(kwargs) : i <= j]
        /\ scalings = <<>>

\* C7: whenever some supplied key is no key of self.defs the constructor
\* fails with the unknown-key error naming such a key, whatever the other
\* anchors are, and leaves no table.
C7_UnknownKey ==
    Called /\ ~KnownKeys =>
        /\ nstatus = "UnknownKey"
        /\ nerr \in DOMAIN kwargs \ DOMAIN PhysNorm_defs
        /\ scalings = <<>>

\* An unknown key next to anchors that leave base dimensions without an
\* exponent: the unknown-key error is the one raised.
C7_Witness ==
    /\ DOMAIN kwargs = {"x", "bogus"}
    /\ ZeroDims(kwargs) # {}
    /\ nstatus = "UnknownKey"
    /\ nerr = "bogus"

Cgs(k) == VMul(attrs[k], norm_attr(scalings, UfoParams_defs[k]))

\* The nine variables given to the constructor.
GivenVars == ArgsKeys \cap UfoVars

\* C1: in every state, for every variable k of defs, vars_cgs[k] is
\* vars_code[k] times the scaling of the dimension of k.
C1_DictsAgree ==
    \A k \in UfoVars :
        vars_cgs[k] = VMul(vars_code[k], norm_attr(scalings, UfoParams_defs[k]))

\* C2: after construction and after update_all, the stored pres, dens and
\* temp, in CGS units, satisfy pres = dens * temp * k_B / (muu * amu).
C2_IdealGas ==
    last.op \in {"__init__", "update_all"} =>
        Cgs("pres") =
            VDiv(VMul(VMul(Cgs("dens"), Cgs("temp")), Num(pc_kboltz)),
                 VMul(UfoParams_fixed(scalings).muu, Num(pc_amu)))

\* C9: when a call of upd_<var> has returned, vars_code holds the stored
\* value of every variable and vars_cgs that value in CGS units.
C9_DictsFresh ==
    last.op = "upd" =>
        \A k \in UfoVars : vars_code[k] = attrs[k] /\ vars_cgs[k] = Cgs(k)

\* C10: the stored value of each of the nine given variables is, in every
\* state, the value the constructor converted it to, and neither the
\* constructor's loop nor update_all calls upd_<var> for a given variable.
C10_GivenFixed ==
    /\ \A g \in GivenVars : attrs[g] = UfoParams_args(inputs, scalings)[g]
    /\ last.op \in {"__init__", "update_all"} =>
          \A i \in 1..Len(last.evals) : last.evals[i] \notin ArgsKeys

\* upd_<var> has returned from a call that overrode the given variable rufo
\* with another value than the stored one, and the store changed.
C10_Witness ==
    /\ last.op = "upd"
    /\ ~last.raised
    /\ "rufo" \in DOMAIN last.kw
    /\ last.kw["rufo"] # attrs["rufo"]
    /\ attrs[last.var] # vars_code[last.var]

\* A step that is a call of upd_<var>.
UpdStep == last'.op = "upd" /\ (nupd' = nupd + 1 \/ last'.times = last.times + 1)

\* C11: a call of upd_<var> that returns stores the value of var's formula,
\* evaluated on the store before the call with the keywords of the call,
\* returns the stored value, and leaves every other variable of the store as
\* it was: no dependant is recomputed, no keyword value is stored.
C11_Frame ==
    [][UpdStep /\ ~last'.raised =>
          /\ attrs'[last'.var] = eqn_fn(Self(attrs, scalings), last'.var, last'.kw)
          /\ last'.ret = attrs'[last'.var]
          /\ DOMAIN attrs' = DOMAIN attrs
          /\ \A k \in DOMAIN attrs \ {last'.var} : attrs'[k] = attrs[k]]_vars

\* upd_area(rufo=v) has returned with v another radius than the stored one:
\* area is the new value, rufo is the stored one still, and pres, which
\* depends on area, is what it was when the dictionaries were built.
C11_Witness ==
    /\ last.op = "upd" /\ ~last.raised /\ last.var = "area"
    /\ DOMAIN last.kw = {"rufo"}
    /\ last.kw["rufo"] # attrs["rufo"]
    /\ attrs["area"] = last.ret
    /\ attrs["area"] # vars_code["area"]
    /\ attrs["rufo"] = vars_code["rufo"]
    /\ attrs["pres"] = vars_code["pres"]

\* C12: a call of upd_<var> in which the evaluation of the formula raises (a
\* keyword the formula does not take, or a division by zero) leaves every
\* stored value, that of var included, as it was.
C12_FailureKeeps ==
    [][UpdStep /\ last'.raised => attrs' = attrs]_vars

\* upd_enth(gamma=1) has raised in eqn_eint, after eqn_pres and eqn_dens
\* returned; the store holds the values the dictionaries were built from.
C12_Witness ==
    /\ last.op = "upd" /\ last.raised
    /\ last.var = "enth" /\ last.kw = ("gamma" :> Num(1))
    /\ IsNum(attrs["enth"])
    /\ attrs = vars_code

\* C13: a call of upd_<var> right after a call of upd_<var> with the same
\* keywords returns (or raises) as the first did and leaves the store as the
\* first left it.
C13_Idempotent ==
    [][UpdStep /\ last.op = "upd" /\ last'.var = last.var /\ last'.kw = last.kw =>
          /\ last'.raised = last.raised
          /\ last'.ret = last.ret
          /\ attrs' = attrs]_vars

\* upd_<var> has been called twice in a row with a keyword that changes the
\* value of var.
C13_Witness ==
    /\ last.times = 2
    /\ last.op = "upd" /\ ~last.raised /\ last.kw # <<>>
    /\ attrs[last.var] = last.ret
    /\ attrs[last.var] # vars_code[last.var]

\* C15: in every state of a constructed object, vars_code and vars_cgs have
\* the 27 keys of defs, each once, in the order of defs.
C15_Keys ==
    /\ keys_code = UfoParams_keys /\ DOMAIN vars_code = UfoVars
    /\ keys_cgs = UfoParams_keys /\ DOMAIN vars_cgs = UfoVars
    /\ Len(keys_code) = Cardinality(UfoVars) /\ Cardinality(UfoVars) = 27
    /\ keys_code[1] = "power" /\ keys_code[10] = "pres_ambient" /\ keys_code[27] = "delta"

\* Both dictionaries have been rebuilt after a call of upd_<var> that changed
\* the store.
C15_Witness ==
    /\ last.op = "rebuild" /\ nupd >= 1
    /\ vars_code = attrs /\ vars_cgs = dictionary_cgs(attrs, scalings)
    /\ attrs # UfoParams__init__(inputs, scalings)
    /\ keys_code = UfoParams_keys /\ keys_cgs = UfoParams_keys

C14_Defaults ==
    last.op = "eqn" /\ ~last.raised =>
        LET self == Self(attrs, scalings)
        IN  /\ \A n \in eqn_params[last.var] \ DOMAIN last.kw :
                  eqn_fn(self, last.var, (n :> self[n]) @@ last.kw) = last.ret
            /\ last.ret = eqn_fn(last.kw @@ self, last.var, <<>>)

\* C19: eqn_mach_internal returns speed / sqrt(gamma * pres / dens), pres and
\* dens being eqn_pres and eqn_dens of the same power, speed, mdot, rufo, wufo
\* and gamma (those passed, the stored ones for the others).
C19_MachInternal ==
    last.op = "eqn" /\ last.var = "mach_internal" /\ ~last.raised =>
        LET self == last.kw @@ Self(attrs, scalings)
            pres == eqn_pres(self, None, None, None, None, None, None)
            dens == eqn_dens(self, None, None, None, None)
        IN  last.ret = VDiv(self.speed, VSqrt(VDiv(VMul(self.gamma, pres), dens)))

(***************************************************************************)
(* Properties of EOSIdeal, under SpecEos.                                  *)
(***************************************************************************)
\* Those of dens, pres and temp an EOS object holds a value for.
Present(e) == {q \in {"dens", "pres", "temp"} : e[q] # None}

\* The ideal gas law in CGS units, for the one of dens, pres, temp that is
\* missing in e.
IdealGas(e, q) ==
    LET k == Num(pc_kboltz)
        m == VMul(e.mu, Num(pc_amu))
    IN  CASE q = "temp" -> VDiv(VMul(m, e.pres), VMul(e.dens, k))
          [] q = "pres" -> VDiv(VMul(VMul(e.dens, e.temp), k), m)
          [] q = "dens" -> VDiv(VMul(m, e.pres), VMul(e.temp, k))

\* C16: a call of auto_eos on an object with exactly two of dens, pres, temp
\* present (not None) stores and returns the third, in the units of onorm, and
\* replaces each of the two by its value divided by the scaling of onorm; on
\* an object with none or all three present it raises and changes none.
C16_AutoEos ==
    [][last'.op = "auto_eos" =>
          /\ Cardinality(Present(eos)) = 2 =>
                /\ ~last'.raised
                /\ \A q \in {"dens", "pres", "temp"} \ Present(eos) :
                      /\ eos'[q] = VDiv(IdealGas(eos, q), eos.onorm[q])
                      /\ last'.ret = eos'[q]
                /\ \A q \in Present(eos) : eos'[q] = VDiv(eos[q], eos.onorm[q])
          /\ Cardinality(Present(eos)) \in {0, 3} => last'.raised /\ eos' = eos]_vars

(***************************************************************************)
(* Properties of the evaluation, under SpecEval.                           *)
(***************************************************************************)
\* No formula is on the call stack twice.
NoReentry ==
    \A i \in 1..Len(stack) : \A j \in 1..Len(stack) :
        i # j /\ stack[i].fn = "eqn" /\ stack[j].fn = "eqn"
            => stack[i].name # stack[j].name

\* C17: no formula reaches itself through the formulas it calls, the recursion
\* limit is never hit, and every call of the constructor, of update_all, of
\* upd_<var> and of a formula returns.
C17_Terminates ==
    /\ [](NoReentry /\ status # "RuntimeError")
    /\ (Running ~> Returned)

\* update_all is five calls deep: upd_enth, eqn_enth, eqn_eint, eqn_pres,
\* eqn_area.
C17_Witness ==
    /\ Len(stack) = 6
    /\ stack[1].fn = "update_all"
    /\ stack[2].fn = "upd" /\ stack[2].name = "enth"
    /\ stack[4].name = "eint"
    /\ Top.fn = "eqn" /\ Top.name = "area"

\* The variables the loop in progress has updated, as a set.
Updated == {done[i] : i \in 1..Len(done)}

\* C18: in the constructor and in update_all the variables are updated in the
\* order of defs, a formula finds every attribute it reads, and in the
\* constructor the derived variables the object has are those already updated.
C18_Order ==
    /\ status # "AttributeError"
    /\ stack # <<>> /\ stack[1].fn \in {"__init__", "update_all"} =>
        /\ done = SubSeq(upd_order, 1, Len(done))
        /\ Top.fn = "upd" => Top.name = upd_order[Len(done) + 1]
        /\ Top.fn = "eqn" /\ Top.pc = 0 => eqn_reads(Top.name, Top.given) \subseteq store
        /\ stack[1].fn = "__init__" => store \cap (UfoVars \ ArgsKeys) = Updated

\* The constructor is evaluating eqn_temp: dens has been updated, temp has not.
C18_Witness ==
    /\ Len(stack) = 3
    /\ stack[1].fn = "__init__"
    /\ Top.fn = "eqn" /\ Top.name = "temp" /\ Top.pc = 0
    /\ "muu" \in eqn_reads(Top.name, Top.given)
    /\ "dens" \in store /\ "temp" \notin store

====
